---- MODULE Spec2Model ----
(***************************************************************************)
(* Chat orchestrator (useChat, the retrying variant) together with the     *)
(* error path of the edge proxy and of the client service functions it     *)
(* calls.                                                                  *)
(*                                                                         *)
(* One useChat instance drives one request session at a time.  An async    *)
(* function is modelled by its position (pc) and its locals; every action  *)
(* is one run-to-next-await step of a handler or continuation.             *)
(*                                                                         *)
(* Strings are abstracted to what the code inspects of them: whether the   *)
(* text includes "Model sedang dimuat" (marker) and the number captured by *)
(* the first match of /(\d+)\s*detik/ (detik, NoNum when nothing matches). *)
(***************************************************************************)
EXTENDS Integers, Sequences, FiniteSets, TLC

(***************************************************************************)
(* Bounds of the exploration                                               *)
(***************************************************************************)
MaxSends == 1
MaxDeltas == 2
MaxLines == 3
MaxTurns == 2
MaxPolls == 2
MaxRestarts == 1
MaxHookSends == 2

(***************************************************************************)
(* Program constants                                                       *)
(***************************************************************************)
MAX_RETRIES == 2
DefaultWaitSeconds == 20
NumPlaceholders == 8

ChatModes == {"General", "Coding", "Vision", "Media"}
TextModes == {"General", "Coding"}

(***************************************************************************)
(* Text abstraction                                                        *)
(***************************************************************************)
NoNum == -1

Text(m, d) == [marker |-> m, detik |-> d]

PlainText == Text(FALSE, NoNum)

\* a + b: includes() holds if it holds of a part, match() returns the first match
Concat(a, b) ==
  Text(a.marker \/ b.marker, IF a.detik # NoNum THEN a.detik ELSE b.detik)

\* `Model sedang dimuat, silakan coba lagi dalam ${Math.ceil(t)} detik.`
LoadingText(t) == Text(TRUE, t)

Err(n, m) == [name |-> n, msg |-> m]

AbortError == Err("AbortError", PlainText)

(***************************************************************************)
(* What the upstream provider may answer to the proxy's single fetch.      *)
(* est = 0 stands for a missing (falsy) estimated_time; text abstracts the *)
(* raw body, which is third-party free text.                               *)
(***************************************************************************)
EstimatedTimes == {0, 5, 30}

BodyTexts == {PlainText, Text(TRUE, NoNum), Text(TRUE, 5), Text(TRUE, 30)}

UpstreamOk == [kind |-> "ok", json |-> TRUE, hasError |-> FALSE, est |-> 0, text |-> PlainText]

UpstreamNetworkError ==
  [kind |-> "network_error", json |-> FALSE, hasError |-> FALSE, est |-> 0, text |-> PlainText]

UpstreamHttpErrors ==
  [kind : {"http_error"}, json : {TRUE}, hasError : BOOLEAN, est : EstimatedTimes, text : BodyTexts]
    \cup [kind : {"http_error"}, json : {FALSE}, hasError : {FALSE}, est : {0}, text : BodyTexts]

UpstreamResponses == {UpstreamOk, UpstreamNetworkError} \cup UpstreamHttpErrors

\* the upstream body is "estimated_time-shaped": JSON with error and estimated_time
IsLoadingShaped(u) == u.kind = "http_error" /\ u.json /\ u.hasError /\ u.est # 0

(***************************************************************************)
(* Edge proxy, error classification of /api/stream, /api/image, /api/vision *)
(***************************************************************************)
\* what the inner try block throws: the loading message, the upstream error,
\* or the SyntaxError of JSON.parse
ProxyInnerThrow(u) ==
  IF ~u.json THEN Err("SyntaxError", PlainText)
  ELSE IF u.hasError /\ u.est # 0 THEN Err("Error", LoadingText(u.est))
  ELSE Err("Error", IF u.hasError THEN u.text ELSE PlainText)

\* the inner catch (e) ignores e and throws `... Error: ${status} ${errorBody}`
ProxyUpstreamError(u) ==
  LET e == ProxyInnerThrow(u)
  IN  Err("Error", Concat(PlainText, u.text))

\* the response of the proxy: ok, or 500 {error: <fixed text>, detail: message}
ProxyResponse(u) ==
  IF u.kind = "ok" THEN [ok |-> TRUE, error |-> PlainText, detail |-> PlainText]
  ELSE IF u.kind = "network_error"
       THEN [ok |-> FALSE, error |-> PlainText, detail |-> PlainText]
  ELSE [ok |-> FALSE, error |-> PlainText, detail |-> ProxyUpstreamError(u).msg]

(***************************************************************************)
(* Client service functions, error path                                    *)
(***************************************************************************)
\* generateTextStream: `API Error: ${status} ${statusText} - ${errorText}`,
\* errorText being the whole body of the proxy's response
GenerateTextStreamError(resp) ==
  Err("Error", Concat(PlainText, Concat(resp.error, resp.detail)))

\* generateImage / getVisionResponse: the Error thrown in the try block is
\* caught by its own catch, where response.text() rejects because the body
\* has been read by response.json()
GenerateArtifactError(resp) ==
  LET first == Err("Error", resp.error)
  IN  Err("TypeError", PlainText)

\* the network call of the client fails before any response
ClientNetworkError == Err("TypeError", PlainText)

ServiceError(mode, resp) ==
  IF mode \in TextModes THEN GenerateTextStreamError(resp)
  ELSE GenerateArtifactError(resp)

(***************************************************************************)
(* Orchestrator, pure parts                                                *)
(***************************************************************************)
isModelLoadingError(e) == e.msg.marker

waitTimeSeconds_floor(e) ==
  IF e.msg.detik # NoNum /\ e.msg.detik > DefaultWaitSeconds THEN e.msg.detik
  ELSE DefaultWaitSeconds

waitTimeSeconds(e) ==
  IF e.msg.detik # NoNum THEN e.msg.detik ELSE DefaultWaitSeconds

ShouldRetry_offByOne(e, rc) == isModelLoadingError(e) /\ rc <= MAX_RETRIES

ShouldRetry_anyError(e, rc) == rc < MAX_RETRIES

ShouldRetry(e, rc) == isModelLoadingError(e) /\ rc < MAX_RETRIES

ErrorKind_noLoadingBranch(e) ==
  IF e.name = "AbortError" THEN "apology" ELSE "generic"

\* errorContent of the final error message
ErrorKind(e) ==
  IF e.name = "AbortError" THEN "apology"
  ELSE IF isModelLoadingError(e) THEN "loadfail"
  ELSE "generic"

\* userInput.trim(): 0 is "", 1 is whitespace only, 2 and 3 are texts
EmptyInput == 0
UserInputs == {0, 1, 2}
Trim(s) == IF s \in {0, 1} THEN EmptyInput ELSE s
DefaultVisionPrompt == 9

Message(r, k, l, c, i) ==
  [role |-> r, kind |-> k, isLoading |-> l, content |-> c, image |-> i]

InitialMessage == Message("model", "initial", FALSE, <<>>, FALSE)
UserMessage(p, img) == Message("user", "user", FALSE, <<p>>, img)
PlaceholderMessage(ix) == Message("model", "placeholder", TRUE, <<ix>>, FALSE)
FinalAnswerMessage(c) == Message("model", "answer", FALSE, c, FALSE)
FinalImageMessage_stillLoading == Message("model", "image", TRUE, <<>>, TRUE)
FinalImageMessage == Message("model", "image", FALSE, <<>>, TRUE)
RetryUIMessage(w, n) == Message("model", "notice", FALSE, <<w, n>>, FALSE)
FinalErrorMessage(k) == Message("model", k, FALSE, <<>>, FALSE)

NullDraft == [present |-> FALSE, content |-> <<>>]
Draft(c) == [present |-> TRUE, content |-> c]

\* timer handles: a ref is "null", "armed" (its timer is pending) or "stale"
\* (its timer was cleared or has fired); pending counts the host's timers
ClearHandle(ref) == IF ref = "armed" THEN "stale" ELSE ref
Released_none(ref) == 0
Released(ref) == IF ref = "armed" THEN 1 ELSE 0

(***************************************************************************)
(* Edge proxy, onRequest: the requests it receives, what it sends upstream *)
(* and what it answers.  A chat message is its role and its content; the   *)
(* content is a number that identifies the turn.                           *)
(***************************************************************************)
Msg(r, c) == [role |-> r, content |-> c]

\* the content of INITIAL_MESSAGES[mode] and of the prompt being submitted
GreetingContent == 0
NewPrompt == 9

\* n completed exchanges: a user turn and the model turn that answered it
RECURSIVE TurnsOf(_)
TurnsOf(n) ==
  IF n = 0 THEN <<>>
  ELSE TurnsOf(n - 1) \o <<Msg("user", Len(TurnsOf(n - 1)) + 1),
                           Msg("model", Len(TurnsOf(n - 1)) + 2)>>

\* the histories a submission is made from: the greeting and the exchanges
\* completed so far
ClientHistories ==
  {<<Msg("model", GreetingContent)>> \o TurnsOf(n) : n \in 0..MaxTurns}

\* sendMessage and generateTextStream: the body is { mode, history, prompt },
\* history being updatedConversation, the history plus the new user message
StreamRequestBody(mode, conversation, p) ==
  [valid |-> TRUE, mode |-> mode, history |-> Append(conversation, Msg("user", p)),
   prompt |-> p, image |-> FALSE]

\* generateImage: { prompt };  getVisionResponse: { prompt, imageBase64 };
\* prompt 0 is a missing or empty prompt
ArtifactRequestBody(p, img) ==
  [valid |-> TRUE, mode |-> "none", history |-> <<>>, prompt |-> p, image |-> img]

\* a body on which request.json() rejects
MalformedBody ==
  [valid |-> FALSE, mode |-> "none", history |-> <<>>, prompt |-> 0, image |-> FALSE]

NoBody == [valid |-> TRUE, mode |-> "none", history |-> <<>>, prompt |-> 0, image |-> FALSE]

BodyRoutes == {"/api/stream", "/api/image", "/api/vision"}
SingleFetchRoutes == BodyRoutes \cup {"/api/wakeup"}
Routes == SingleFetchRoutes \cup {"/api/status"}

ModelsToCheck == {"llama3", "codellama", "vilt", "sdxl"}

buildApiHistory(history) ==
  LET cleanHistory == IF Len(history) > 0 /\ history[1].role = "model"
                      THEN Tail(history) ELSE history
  IN  [i \in 1..Len(cleanHistory) |->
         Msg(IF cleanHistory[i].role = "model" THEN "assistant" ELSE cleanHistory[i].role,
             cleanHistory[i].content)]

\* systemPrompt: 102 is the text for the coding mode, 101 the general one
SystemPrompt(mode) == IF mode = "Coding" THEN 102 ELSE 101

\* const messages = [system, ...buildApiHistory(history), user]
StreamMessages(b) ==
  <<Msg("system", SystemPrompt(b.mode))>> \o buildApiHistory(b.history)
    \o <<Msg("user", b.prompt)>>

\* what the provider may answer to a probe (wake-up or status): a status code
\* and a body that is JSON or not, with or without error and estimated_time
\* (est = 0: missing or falsy), or no answer at all
ProbeNetworkError ==
  [kind |-> "network_error", status |-> 0, json |-> FALSE, hasError |-> FALSE, est |-> 0]

ProbeAnswers ==
  {ProbeNetworkError} \cup
  [kind : {"response"}, status : {200, 422, 503}, json : BOOLEAN, hasError : BOOLEAN,
   est : {0, 30}]

NoAnswer == [kind |-> "none"]

IsOkStatus(st) == st >= 200 /\ st <= 299

checkModelStatus_strict(a) ==
  IF a.kind = "network_error" THEN "offline"
  ELSE IF IsOkStatus(a.status) THEN "online"
  ELSE IF ~a.json THEN "offline"
  ELSE IF a.hasError /\ a.est # 0 THEN "loading"
  ELSE "offline"

checkModelStatus(a) ==
  IF a.kind = "network_error" THEN "offline"
  ELSE IF IsOkStatus(a.status) \/ a.status = 422 THEN "online"
  ELSE IF ~a.json THEN "offline"
  ELSE IF a.hasError /\ a.est # 0 THEN "loading"
  ELSE "offline"

\* a response of the proxy: its status code, the fields of its JSON body,
\* the value of its status field and of its estimated_time field
Resp(st, fields, statusField, est) ==
  [status |-> st, fields |-> fields, statusField |-> statusField, estimated_time |-> est]

NoResponse == Resp(0, {}, "none", 0)

ErrorResponse == Resp(500, {"error", "detail"}, "none", 0)

\* /api/vision without prompt or image
ValidationResponse == Resp(400, {"error"}, "none", 0)

SuccessResponse(r) ==
  IF r = "/api/stream" THEN Resp(200, {"event-stream"}, "none", 0)
  ELSE IF r = "/api/image" THEN Resp(200, {"imageUrl"}, "none", 0)
  ELSE Resp(200, {"answer"}, "none", 0)

\* /api/stream, /api/image, /api/vision after the upstream fetch
ForwardResponse(r, u) == IF ProxyResponse(u).ok THEN SuccessResponse(r) ELSE ErrorResponse

WakeupResponse_like422(a) ==
  IF a.kind = "network_error" THEN ErrorResponse
  ELSE IF IsOkStatus(a.status) \/ a.status = 422 THEN Resp(200, {"status"}, "ready", 0)
  ELSE IF ~a.json THEN ErrorResponse
  ELSE IF a.hasError /\ a.est # 0 THEN Resp(202, {"status", "estimated_time"}, "loading", a.est)
  ELSE ErrorResponse

\* /api/wakeup after the upstream fetch
WakeupResponse(a) ==
  IF a.kind = "network_error" THEN ErrorResponse
  ELSE IF IsOkStatus(a.status) THEN Resp(200, {"status"}, "ready", 0)
  ELSE IF ~a.json THEN ErrorResponse
  ELSE IF a.hasError /\ a.est # 0 THEN Resp(202, {"status", "estimated_time"}, "loading", a.est)
  ELSE ErrorResponse

\* an error page of the hosting platform: the body is not JSON
PlatformErrorResponse == Resp(502, {}, "none", 0)

\* what a client service function throws: the name of the error and where
\* its message comes from
Thrown(n, from) == [name |-> n, from |-> from]
NoThrow == Thrown("none", "none")

\* generateImage from the response on.  In the !response.ok branch the try
\* block reads the body with response.json() and throws (the SyntaxError of
\* a body that is not JSON, or the Error built from the error and detail
\* fields); its own catch block catches either and awaits response.text(),
\* which rejects because the body has been read.
generateImage(r) ==
  IF IsOkStatus(r.status)
  THEN IF "imageUrl" \in r.fields THEN NoThrow ELSE Thrown("Error", "noImageUrl")
  ELSE LET inTry == IF r.fields = {} THEN Thrown("SyntaxError", "json")
                    ELSE IF "error" \in r.fields THEN Thrown("Error", "error")
                    ELSE IF "detail" \in r.fields THEN Thrown("Error", "detail")
                    ELSE Thrown("Error", "unknown")
       IN  Thrown("TypeError", "bodyUsed")

WithStatus_failsAll(sts, m, st) ==
  IF st = "offline" THEN [x \in DOMAIN sts |-> "offline"] ELSE [sts EXCEPT ![m] = st]

\* .then(status => ({ modelId, status })) and acc[modelId] = status
WithStatus(sts, m, st) == [sts EXCEPT ![m] = st]

UpstreamFetches_perModel(r) == Cardinality(ModelsToCheck)

\* the number of fetch calls on the code path of a route
UpstreamFetches(r) == IF r = "/api/status" THEN Cardinality(ModelsToCheck) ELSE 1

(***************************************************************************)
(* Welcome screen, program constants                                       *)
(***************************************************************************)
DefaultEstimate == 60
MinEstimate == 20

\* the fetch of wakeUpModel rejects: the proxy was not reached
FetchRejected == Resp(0, {}, "rejected", 0)

Max(a, b) == IF a >= b THEN a ELSE b

PollOutcome_errorIsReady(r) ==
  IF r = FetchRejected THEN "failed"
  ELSE IF r.status = 202 /\ r.statusField = "loading" THEN "loading"
  ELSE "ready"

\* poll: what one answer of wakeUpModel leads to.  wakeUpModel throws
\* unless the response is ok or 202
PollOutcome(r) ==
  IF r = FetchRejected THEN "failed"
  ELSE IF ~IsOkStatus(r.status) /\ r.status # 202 THEN "failed"
  ELSE IF r.status = 202 /\ r.statusField = "loading" THEN "loading"
  ELSE IF IsOkStatus(r.status) /\ r.statusField = "ready" THEN "ready"
  ELSE "failed"

\* data.estimated_time || estimatedTime, at least MinEstimate
NextEstimate(r, current) ==
  Max(IF r.estimated_time # 0 THEN r.estimated_time ELSE current, MinEstimate)

(***************************************************************************)
(* Edge proxy, the stream translator of /api/stream.  A byte stream is a   *)
(* sequence of characters; "n" is the line feed, <<"d", ":">> stands for   *)
(* the prefix 'data:' (two characters, so that a chunk can end inside it), *)
(* <<"[", "]">> for '[DONE]', <<"{", x, "}">> for a JSON completion chunk  *)
(* whose choices[0].delta.content is x and <<"{", "}">> for a JSON value   *)
(* without delta content.  Anything else does not parse as JSON.           *)
(***************************************************************************)
NL == "n"
SP == " "
DataPrefix == <<"d", ":">>
DoneToken == <<"[", "]">>
DeltaChars == {"a", "b"}
JsonWithDelta(x) == <<"{", x, "}">>
JsonNoDelta == <<"{", "}">>

\* the lines an upstream stream is made of: a delta after 'data: ', a delta
\* after 'data:', the [DONE] sentinel, a chunk without content, a cut-off JSON
\* text, the empty separator line, and a delta line whose line feed is missing
LineTemplates ==
  { DataPrefix \o <<SP>> \o JsonWithDelta("a") \o <<NL>>,
    DataPrefix \o JsonWithDelta("b") \o <<NL>>,
    DataPrefix \o <<SP>> \o DoneToken \o <<NL>>,
    DataPrefix \o JsonNoDelta \o <<NL>>,
    DataPrefix \o <<"{", "a", NL>>,
    <<NL>>,
    DataPrefix \o JsonWithDelta("a") }

RECURSIVE StreamsOf(_)
StreamsOf(n) ==
  IF n = 0 THEN {<<>>}
  ELSE StreamsOf(n - 1) \cup {s \o t : s \in StreamsOf(n - 1), t \in LineTemplates}

UpstreamStreams == StreamsOf(MaxLines)

\* buffer.split('\n')
RECURSIVE Split(_)
Split(s) ==
  IF \A i \in 1..Len(s) : s[i] # NL THEN <<s>>
  ELSE LET i == CHOOSE k \in 1..Len(s) : s[k] = NL /\ \A j \in 1..(k - 1) : s[j] # NL
       IN  <<SubSeq(s, 1, i - 1)>> \o Split(SubSeq(s, i + 1, Len(s)))

\* the array left in lines after lines.pop()
CompleteLines(parts) == SubSeq(parts, 1, Len(parts) - 1)

Remainder_dropped(parts) == <<>>

\* buffer = lines.pop() || ''
Remainder(parts) == parts[Len(parts)]

StartsWith(line, prefix) ==
  Len(line) >= Len(prefix) /\ SubSeq(line, 1, Len(prefix)) = prefix

RECURSIVE TrimSpaces(_)
TrimSpaces(s) ==
  IF s = <<>> THEN s
  ELSE IF Head(s) = SP THEN TrimSpaces(Tail(s))
  ELSE IF s[Len(s)] = SP THEN TrimSpaces(SubSeq(s, 1, Len(s) - 1))
  ELSE s

\* JSON.parse(jsonString) returns
JsonParses(j) == j = JsonNoDelta \/ \E x \in DeltaChars : j = JsonWithDelta(x)

\* parsed.choices[0]?.delta?.content || ''
DeltaContent(j) == IF j = JsonNoDelta THEN "" ELSE j[Len(j) - 1]

ParseFailure_uncaught == "throw"

\* JSON.parse throws inside the inner try: the catch ignores the line
ParseFailure == "skip"

\* the body of the for loop for one line
LineOutcome(line) ==
  IF ~StartsWith(line, DataPrefix) THEN [kind |-> "skip", text |-> ""]
  ELSE LET jsonString == TrimSpaces(SubSeq(line, Len(DataPrefix) + 1, Len(line)))
       IN  IF jsonString = DoneToken THEN [kind |-> "skip", text |-> ""]
           ELSE IF ~JsonParses(jsonString) THEN [kind |-> ParseFailure, text |-> ""]
           ELSE IF DeltaContent(jsonString) = "" THEN [kind |-> "skip", text |-> ""]
           ELSE [kind |-> "frame", text |-> DeltaContent(jsonString)]

\* `data: ${JSON.stringify({ text })}\n\n`
ClientFrame(text) == [text |-> text]

\* the frames the for loop writes for the lines of one chunk
RECURSIVE FramesOfLines(_)
FramesOfLines(ls) ==
  IF ls = <<>> THEN <<>>
  ELSE LET o == LineOutcome(Head(ls))
       IN  IF o.kind = "throw" THEN <<>>
           ELSE IF o.kind = "frame" THEN <<ClientFrame(o.text)>> \o FramesOfLines(Tail(ls))
           ELSE FramesOfLines(Tail(ls))

\* the frames written when the bytes s arrive as one single chunk
OneChunk(s) == FramesOfLines(CompleteLines(Split(s)))

AtEndOfStream_flushed(w, buf) == w \o FramesOfLines(<<buf>>)

\* break: the loop is left and the buffer is not looked at again
AtEndOfStream(w, buf) == w

OnReadFailure_errorFrame(w) == Append(w, ClientFrame("error"))

\* the outer catch logs the error and writes nothing
OnReadFailure(w) == w

\* the bytes of the frames written to the client
RECURSIVE EncodeFrames(_)
EncodeFrames(fs) ==
  IF fs = <<>> THEN <<>>
  ELSE DataPrefix \o <<SP>> \o JsonWithDelta(Head(fs).text) \o <<NL, NL>>
         \o EncodeFrames(Tail(fs))

\* generateTextStream, the for loop over the complete lines: onChunk is
\* called with parsed.text of every data: line whose JSON parses and has text
RECURSIVE ClientChunksOf(_)
ClientChunksOf(ls) ==
  IF ls = <<>> THEN <<>>
  ELSE LET line == Head(ls)
           jsonString == TrimSpaces(SubSeq(line, Len(DataPrefix) + 1, Len(line)))
       IN  IF /\ StartsWith(line, DataPrefix)
              /\ jsonString # <<>>
              /\ JsonParses(jsonString)
              /\ DeltaContent(jsonString) # ""
           THEN <<DeltaContent(jsonString)>> \o ClientChunksOf(Tail(ls))
           ELSE ClientChunksOf(Tail(ls))

\* nothing has been committed
NoCommit == [role |-> "none"]

LoopDone_eager(ls) == TRUE

\* the for loop over lines, with its awaited writes, has run to its end
LoopDone(ls) == ls = <<>>

VARIABLES
  activeMode, conversations, isLoading, streamingMessage,
  abortControllerRef, placeholderIntervalRef, timeoutRef,
  pendingIntervals, pendingTimeouts, placeholderIndex,
  pc, sessMode, prompt, currentConversation, retryCount, imageBase64,
  fullResponse, waitSeconds,
  attempts, results, abortCause, cancelledInWait, sends, preHistory, outstanding,
  delivered

\* the proxy's streamProcessor: upstream is what the provider has not yet
\* delivered of wholeStream, lines the rest of the array the for loop goes
\* through, written the frames handed to writer.write
VARIABLES
  wholeStream, upstream, buffer, lines, written, proxyPc, writerState,
  readFailed, cutInPrefix, cutInJson,
  clientBytes, clientChunks, clientCommit

proxyVars == <<wholeStream, upstream, buffer, lines, written, proxyPc, writerState,
               readFailed, cutInPrefix, cutInJson, clientBytes, clientChunks, clientCommit>>

ctxVars == <<activeMode, conversations, isLoading, streamingMessage>>
refVars == <<abortControllerRef, placeholderIntervalRef, timeoutRef>>
hostVars == <<pendingIntervals, pendingTimeouts, placeholderIndex>>
callVars == <<pc, sessMode, prompt, currentConversation, retryCount, imageBase64,
              fullResponse, waitSeconds>>
obsVars == <<attempts, results, abortCause, cancelledInWait, sends, preHistory, outstanding,
             delivered>>
chatVars == <<ctxVars, refVars, hostVars, callVars, obsVars>>

\* one invocation of the proxy's onRequest: the route and JSON body of the
\* request (priorTurns and submitted are the client's history and prompt the
\* body was built from), the position of the handler, the upstream fetches
\* issued, the message list of the last one, the last upstream answer, the
\* response returned, and the statuses collected by /api/status
VARIABLES
  route, body, priorTurns, submitted, handlerPc, upstreamCalls, upstreamMessages,
  answer, lastProbe, response, statuses, clientThrown

requestVars == <<route, body, priorTurns, submitted, handlerPc, upstreamCalls,
                 upstreamMessages, answer, lastProbe, response, statuses, clientThrown>>

\* the WelcomeScreen component and the locals of its current wake-up process
VARIABLES
  welcomeLoading, isReady, wakeError, isPolling, estimatedTime, welcomePc,
  progressIntervalRef, polls, restarts, readyReceived, showWelcome,
  wakeAnswer, wakeResponse

welcomeVars == <<welcomeLoading, isReady, wakeError, isPolling, estimatedTime, welcomePc,
                 progressIntervalRef, polls, restarts, readyReceived, showWelcome,
                 wakeAnswer, wakeResponse>>

\* the hook of src/hooks/useChat.ts: the context state it uses (hMode is
\* activeMode), its refs, and of the request in flight its position, its
\* mode and the locals of sendMessage
VARIABLES
  hMode, hConversations, hIsLoading, hAbortControllerRef, hIntervalPending,
  isFirstRequestRef, hPc, hReqMode, newMessages, hFullResponse, hasStartedStreaming,
  hPlaceholderIndex, hSends

hookVars == <<hMode, hConversations, hIsLoading, hAbortControllerRef, hIntervalPending,
              isFirstRequestRef, hPc, hReqMode, newMessages, hFullResponse,
              hasStartedStreaming, hPlaceholderIndex, hSends>>

\* what the actions of one component leave alone
outsideChat == <<proxyVars, requestVars, welcomeVars, hookVars>>
outsideStream == <<chatVars, requestVars, welcomeVars, hookVars>>
outsideRequest == <<chatVars, proxyVars, welcomeVars, hookVars>>
outsideWelcome == <<chatVars, proxyVars, requestVars, hookVars>>
outsideHook == <<chatVars, proxyVars, requestVars, welcomeVars>>

vars == <<chatVars, proxyVars, requestVars, welcomeVars, hookVars>>

(***************************************************************************)
(* The hook of src/hooks/useChat.ts.  A message is its role, what it is    *)
(* (kind, not read by the code), its content (<<>> is the empty string)    *)
(* and the number of the request whose placeholder id its prompt holds     *)
(* (0: the prompt is not a placeholder id).                                *)
(***************************************************************************)
HookModes == {"General", "Coding", "Media"}

HookMessage(r, k, c, ph) == [role |-> r, kind |-> k, content |-> c, placeholderOf |-> ph]

HookGreeting == HookMessage("model", "initial", <<0>>, 0)
HookUserMessage == HookMessage("user", "user", <<2>>, 0)
\* the first request of a mode starts from the warm-up text, later ones from ""
InitialContent(first) == IF first THEN <<0>> ELSE <<>>
ProvisionalMessage(first) ==
  HookMessage("model", IF first THEN "warmup" ELSE "draft", InitialContent(first), 0)
HookPlaceholder(i, n) == HookMessage("model", "placeholder", <<i>>, n)
HookImageMessage == HookMessage("model", "image", <<>>, 0)
HookAnswer(c) == HookMessage("model", "answer", c, 0)
HookErrorMessage == HookMessage("model", "error", <<9>>, 0)

\* cancelRequest: the last message is a temporary one
IsTemporary(m) == m.role = "model" /\ (m.placeholderOf # 0 \/ m.content = <<>>)

\* currentHistory.slice(0, -1) when the last message is temporary
WithoutTemporary(h) ==
  IF h # <<>> /\ IsTemporary(h[Len(h)]) THEN SubSeq(h, 1, Len(h) - 1) ELSE h

\* prev[mode].map over the message whose prompt is the placeholder id
ReplacePlaceholder(h, n, msg) ==
  [i \in 1..Len(h) |-> IF h[i].placeholderOf = n THEN msg ELSE h[i]]

\* the hook is mounted and no request has been sent
useChatHookInit ==
  /\ hMode = "General"
  /\ hConversations = [m \in HookModes |-> <<HookGreeting>>]
  /\ hIsLoading = FALSE
  /\ hAbortControllerRef = "null"
  /\ hIntervalPending = 0
  /\ isFirstRequestRef = [m \in HookModes |-> TRUE]
  /\ hPc = "idle"
  /\ hReqMode = "General"
  /\ newMessages = <<>>
  /\ hFullResponse = <<>>
  /\ hasStartedStreaming = FALSE
  /\ hPlaceholderIndex = 0
  /\ hSends = 0

\* the state of AppProvider and of a fresh useChat instance
useChatInit ==
  /\ activeMode = "General"
  /\ conversations = [m \in ChatModes |-> <<InitialMessage>>]
  /\ isLoading = FALSE
  /\ streamingMessage = NullDraft
  /\ abortControllerRef = "null"
  /\ placeholderIntervalRef = "null"
  /\ timeoutRef = "null"
  /\ pendingIntervals = 0
  /\ pendingTimeouts = 0
  /\ placeholderIndex = 0
  /\ pc = "idle"
  /\ sessMode = "General"
  /\ prompt = EmptyInput
  /\ currentConversation = <<>>
  /\ retryCount = 0
  /\ imageBase64 = FALSE
  /\ fullResponse = <<>>
  /\ waitSeconds = 0
  /\ attempts = 0
  /\ results = <<>>
  /\ abortCause = "none"
  /\ cancelledInWait = FALSE
  /\ sends = 0
  /\ preHistory = <<>>
  /\ outstanding = 0
  /\ delivered = <<>>

\* no /api/stream response is being translated
NoStream ==
  /\ wholeStream = <<>>
  /\ upstream = <<>>
  /\ buffer = <<>>
  /\ lines = <<>>
  /\ written = <<>>
  /\ proxyPc = "none"
  /\ writerState = "none"
  /\ readFailed = FALSE
  /\ cutInPrefix = FALSE
  /\ cutInJson = FALSE
  /\ clientBytes = <<>>
  /\ clientChunks = <<>>
  /\ clientCommit = NoCommit

\* no request is being handled by the proxy
NoRequest ==
  /\ route = "none"
  /\ body = NoBody
  /\ priorTurns = <<>>
  /\ submitted = 0
  /\ handlerPc = "idle"
  /\ upstreamCalls = 0
  /\ upstreamMessages = <<>>
  /\ answer = NoAnswer
  /\ lastProbe = "none"
  /\ response = NoResponse
  /\ statuses = [m \in ModelsToCheck |-> "pending"]
  /\ clientThrown = NoThrow

\* the welcome screen has been left
NoWelcome ==
  /\ welcomeLoading = FALSE
  /\ isReady = TRUE
  /\ wakeError = FALSE
  /\ isPolling = FALSE
  /\ estimatedTime = DefaultEstimate
  /\ welcomePc = "none"
  /\ progressIntervalRef = "null"
  /\ polls = 0
  /\ restarts = 0
  /\ readyReceived = TRUE
  /\ showWelcome = FALSE
  /\ wakeAnswer = NoAnswer
  /\ wakeResponse = NoResponse

Init == useChatInit /\ NoStream /\ NoRequest /\ NoWelcome /\ useChatHookInit

InFlight == pc \in {"fetch", "stream"}
AbortPending == InFlight /\ abortControllerRef = "aborted"

(***************************************************************************)
(* Timer bookkeeping of one session                                        *)
(***************************************************************************)
CurrentTimers ==
  [iref |-> placeholderIntervalRef, ipend |-> pendingIntervals,
   tref |-> timeoutRef, tpend |-> pendingTimeouts]

\* if (placeholderIntervalRef.current) clearInterval(placeholderIntervalRef.current)
ClearIntervalAfterImage(t) ==
  [t EXCEPT !.iref = ClearHandle(t.iref), !.ipend = t.ipend - Released(t.iref)]

\* first lines of the catch block: the deadline is cleared, the interval is
\* cleared and its ref reset
ClearTimersInCatch(t) ==
  [iref |-> "null", ipend |-> t.ipend - Released(t.iref),
   tref |-> ClearHandle(t.tref), tpend |-> t.tpend - Released(t.tref)]

CleanupTimers_keepsDeadline(t) ==
  [iref |-> "null", ipend |-> t.ipend - Released(t.iref),
   tref |-> "null", tpend |-> t.tpend]

\* the timer part of cleanupAfterRequest
CleanupTimers(t) ==
  [iref |-> "null", ipend |-> t.ipend - Released(t.iref),
   tref |-> "null", tpend |-> t.tpend - Released(t.tref)]

SetTimers(t) ==
  /\ placeholderIntervalRef' = t.iref
  /\ pendingIntervals' = t.ipend
  /\ timeoutRef' = t.tref
  /\ pendingTimeouts' = t.tpend

DiscardDraft_keeps(d) == d

\* setStreamingMessage(null)
DiscardDraft(d) == NullDraft

\* cleanupAfterRequest, run on the timers as the session's last code left them
cleanupAfterRequest(t) ==
  /\ SetTimers(CleanupTimers(t))
  /\ isLoading' = FALSE
  /\ streamingMessage' = DiscardDraft(streamingMessage)
  /\ abortControllerRef' = "null"

Abort_noop(ref) == ref

\* abortControllerRef.current?.abort()
Abort(ref) == IF ref = "null" THEN "null" ELSE "aborted"

AfterRetryWait_keepsNotice(shown, cur) == shown

\* the retry notice is removed before the next attempt
AfterRetryWait(shown, cur) == cur

Accumulate_replace(full, chunk) == <<chunk>>

\* fullResponse += chunk
Accumulate(full, chunk) == Append(full, chunk)

CommitBase_prev(prev, cur) == prev

\* the history a final message is appended to
CommitBase(prev, cur) == cur

\* a final message is committed, performSendWithRetries returns and the
\* finally block of sendMessage runs
CommitAndFinish(msg, t) ==
  /\ conversations' = [conversations EXCEPT
        ![sessMode] = Append(CommitBase(conversations[sessMode], currentConversation), msg)]
  /\ cleanupAfterRequest(t)
  /\ pc' = "idle"
  /\ UNCHANGED <<activeMode, placeholderIndex, sessMode, prompt, currentConversation,
                 retryCount, imageBase64, fullResponse, waitSeconds>>

(***************************************************************************)
(* performSendWithRetries from its first line to its first await.  Its     *)
(* callers have just set the mode's history to cur.  The throw of          *)
(* "Vision mode requires an image." cannot happen: sendMessage returns     *)
(* early in that case and a retry passes the same image on.                *)
(***************************************************************************)
StartAttempt(mode, cur, rc) ==
  /\ abortControllerRef' = "live"
  /\ timeoutRef' = "armed"
  /\ pendingTimeouts' = pendingTimeouts + 1
  /\ retryCount' = rc
  /\ fullResponse' = <<>>
  /\ pc' = "fetch"
  /\ IF mode = "Media" /\ rc = 0
     THEN /\ conversations' = [conversations EXCEPT ![mode] = Append(cur, PlaceholderMessage(0))]
          /\ placeholderIntervalRef' = "armed"
          /\ pendingIntervals' = pendingIntervals + 1
     ELSE /\ conversations' = [conversations EXCEPT ![mode] =
                IF rc = 0 THEN cur ELSE AfterRetryWait(conversations[mode], cur)]
          /\ UNCHANGED <<placeholderIntervalRef, pendingIntervals>>
  /\ placeholderIndex' = 0
  /\ streamingMessage' = IF mode \in TextModes THEN Draft(<<>>) ELSE streamingMessage
  /\ outstanding' = outstanding + 1
  /\ delivered' = <<>>

SendRejected_ignoresLoading(loading, mode, userInput, img) ==
  \/ mode = "Vision" /\ ~img
  \/ mode # "Vision" /\ Trim(userInput) = EmptyInput

\* the three early returns of sendMessage
SendRejected(loading, mode, userInput, img) ==
  \/ loading
  \/ mode = "Vision" /\ ~img
  \/ mode # "Vision" /\ Trim(userInput) = EmptyInput

\* a call that returns early changes nothing; MaxSends bounds the submissions
\* accepted from Idle
sendMessage(userInput, img) ==
  IF SendRejected(isLoading, activeMode, userInput, img)
  THEN UNCHANGED vars
  ELSE /\ isLoading \/ sends < MaxSends
       /\ LET p == IF Trim(userInput) # EmptyInput THEN Trim(userInput)
                   ELSE IF activeMode = "Vision" THEN DefaultVisionPrompt ELSE EmptyInput
              updatedConversation == Append(conversations[activeMode], UserMessage(p, img))
          IN  /\ isLoading' = TRUE
              /\ prompt' = p
              /\ currentConversation' = updatedConversation
              /\ StartAttempt(activeMode, updatedConversation, 0)
       /\ sessMode' = activeMode
       /\ imageBase64' = img
       /\ attempts' = 1
       /\ results' = <<>>
       /\ abortCause' = "none"
       /\ cancelledInWait' = FALSE
       /\ sends' = sends + 1
       /\ preHistory' = conversations[activeMode]
       /\ waitSeconds' = 0
       /\ UNCHANGED <<activeMode, outsideChat>>

\* the catch block of performSendWithRetries for error e, followed (when the
\* error is final) by the finally block of sendMessage
Catch(e) ==
  LET t == ClearTimersInCatch(CurrentTimers)
  IN  IF ShouldRetry(e, retryCount)
      THEN /\ SetTimers(t)
           /\ waitSeconds' = waitTimeSeconds(e)
           /\ conversations' = [conversations EXCEPT ![sessMode] =
                Append(currentConversation, RetryUIMessage(waitTimeSeconds(e), retryCount + 1))]
           /\ streamingMessage' = NullDraft
           /\ pc' = "wait"
           /\ UNCHANGED <<activeMode, isLoading, abortControllerRef, placeholderIndex, sessMode,
                          prompt, currentConversation, retryCount, imageBase64, fullResponse>>
      ELSE CommitAndFinish(FinalErrorMessage(ErrorKind(e)), t)

ResultOf(e) ==
  IF e.name = "AbortError" THEN "abort"
  ELSE IF isModelLoadingError(e) THEN "loading" ELSE "hard"

\* the awaited network call of the current attempt settles with result r
AttemptEnds(r) ==
  /\ results' = Append(results, r)
  /\ outstanding' = outstanding - 1
  /\ UNCHANGED delivered

\* the proxy answers a non-2xx response, or the client's fetch fails
AttemptFails(u, clientFails) ==
  /\ pc = "fetch"
  /\ abortControllerRef = "live"
  /\ clientFails \/ ~ProxyResponse(u).ok
  /\ LET e == IF clientFails THEN ClientNetworkError
              ELSE ServiceError(sessMode, ProxyResponse(u))
     IN  /\ Catch(e)
         /\ AttemptEnds(ResultOf(e))
  /\ UNCHANGED <<attempts, abortCause, cancelledInWait, sends, preHistory>>
  /\ UNCHANGED outsideChat

\* /api/image or /api/vision answers 200: the final message replaces the placeholder
ArtifactArrives(u) ==
  /\ pc = "fetch"
  /\ abortControllerRef = "live"
  /\ sessMode \notin TextModes
  /\ ProxyResponse(u).ok
  /\ IF sessMode = "Vision"
     THEN CommitAndFinish(FinalAnswerMessage(<<>>), CurrentTimers)
     ELSE CommitAndFinish(FinalImageMessage, ClearIntervalAfterImage(CurrentTimers))
  /\ AttemptEnds("ok")
  /\ UNCHANGED <<attempts, abortCause, cancelledInWait, sends, preHistory>>
  /\ UNCHANGED outsideChat

\* /api/stream answers 200: generateTextStream starts reading the body
StreamOpens(u) ==
  /\ pc = "fetch"
  /\ abortControllerRef = "live"
  /\ sessMode \in TextModes
  /\ ProxyResponse(u).ok
  /\ pc' = "stream"
  /\ UNCHANGED <<ctxVars, refVars, hostVars, sessMode, prompt, currentConversation, retryCount,
                 imageBase64, fullResponse, waitSeconds, obsVars>>
  /\ UNCHANGED outsideChat

\* onChunk(parsed.text)
StreamDelta(d) ==
  /\ pc = "stream"
  /\ abortControllerRef = "live"
  /\ Len(fullResponse) < MaxDeltas
  /\ fullResponse' = Accumulate(fullResponse, d)
  /\ streamingMessage' = IF streamingMessage.present THEN Draft(fullResponse') ELSE NullDraft
  /\ delivered' = Append(delivered, d)
  /\ UNCHANGED <<activeMode, conversations, isLoading, refVars, hostVars, pc, sessMode, prompt,
                 currentConversation, retryCount, imageBase64, waitSeconds, attempts, results,
                 abortCause, cancelledInWait, sends, preHistory, outstanding>>
  /\ UNCHANGED outsideChat

\* reader.read() reports done
StreamCompletes ==
  /\ pc = "stream"
  /\ abortControllerRef = "live"
  /\ CommitAndFinish(FinalAnswerMessage(fullResponse), CurrentTimers)
  /\ AttemptEnds("ok")
  /\ UNCHANGED <<attempts, abortCause, cancelledInWait, sends, preHistory>>
  /\ UNCHANGED outsideChat

\* reader.read() rejects: onError rethrows into performSendWithRetries
StreamReadFails ==
  /\ pc = "stream"
  /\ abortControllerRef = "live"
  /\ Catch(ClientNetworkError)
  /\ AttemptEnds(ResultOf(ClientNetworkError))
  /\ UNCHANGED <<attempts, abortCause, cancelledInWait, sends, preHistory>>
  /\ UNCHANGED outsideChat

\* the pending fetch or read rejects with AbortError.  generateTextStream
\* swallows it and resolves, so the text branch goes on to its commit;
\* generateImage and getVisionResponse let it reach the catch block.
AbortDelivered ==
  /\ AbortPending
  /\ IF sessMode \in TextModes
     THEN CommitAndFinish(FinalAnswerMessage(fullResponse), CurrentTimers)
     ELSE Catch(AbortError)
  /\ AttemptEnds("abort")
  /\ UNCHANGED <<attempts, abortCause, cancelledInWait, sends, preHistory>>
  /\ UNCHANGED outsideChat

\* the retry delay elapses: the notice is removed and the next attempt starts
RetryWaitDone ==
  /\ pc = "wait"
  /\ StartAttempt(sessMode, currentConversation, retryCount + 1)
  /\ attempts' = attempts + 1
  /\ UNCHANGED <<activeMode, isLoading, sessMode, prompt, currentConversation, imageBase64,
                 waitSeconds, results, abortCause, cancelledInWait, sends, preHistory>>
  /\ UNCHANGED outsideChat

\* the Stop button, which replaces the Send button while isLoading
cancelRequest ==
  /\ isLoading
  /\ IF abortControllerRef # "null"
     THEN /\ abortControllerRef' = Abort(abortControllerRef)
          /\ UNCHANGED <<activeMode, conversations, isLoading, streamingMessage,
                         placeholderIntervalRef, timeoutRef, pendingIntervals, pendingTimeouts>>
     ELSE /\ cleanupAfterRequest(CurrentTimers)
          /\ UNCHANGED <<activeMode, conversations>>
  /\ abortCause' = IF InFlight /\ abortControllerRef = "live" THEN "user" ELSE abortCause
  /\ cancelledInWait' = (cancelledInWait \/ pc = "wait")
  /\ UNCHANGED <<placeholderIndex, callVars, attempts, results, sends, preHistory, outstanding,
                 delivered>>
  /\ UNCHANGED outsideChat

\* the deadline timer fires: abortControllerRef.current?.abort()
TimeoutFires ==
  /\ pendingTimeouts > 0
  /\ ~AbortPending
  /\ pendingTimeouts' = pendingTimeouts - 1
  /\ timeoutRef' = ClearHandle(timeoutRef)
  /\ abortControllerRef' = Abort(abortControllerRef)
  /\ abortCause' = IF InFlight /\ abortControllerRef = "live" THEN "deadline" ELSE abortCause
  /\ UNCHANGED <<ctxVars, placeholderIntervalRef, pendingIntervals, placeholderIndex, callVars,
                 attempts, results, cancelledInWait, sends, preHistory, outstanding,
                 delivered>>
  /\ UNCHANGED outsideChat

\* the placeholder rotation ticks
IntervalTick ==
  /\ pendingIntervals > 0
  /\ ~AbortPending
  /\ placeholderIndex' = (placeholderIndex + 1) % NumPlaceholders
  /\ LET conv == conversations[sessMode]
         lastMsg == conv[Len(conv)]
     IN  IF Len(conv) > 0 /\ lastMsg.role = "model" /\ lastMsg.isLoading
         THEN conversations' = [conversations EXCEPT
                ![sessMode][Len(conv)].content = <<placeholderIndex'>>]
         ELSE UNCHANGED conversations
  /\ UNCHANGED <<activeMode, isLoading, streamingMessage, refVars, pendingIntervals,
                 pendingTimeouts, callVars, obsVars>>
  /\ UNCHANGED outsideChat

\* a sidebar button
setActiveMode(m) ==
  /\ m # activeMode
  /\ activeMode' = m
  /\ UNCHANGED <<conversations, isLoading, streamingMessage, refVars, hostVars, callVars, obsVars>>
  /\ UNCHANGED outsideChat

Next ==
  \/ \E userInput \in UserInputs, img \in BOOLEAN : sendMessage(userInput, img)
  \/ \E u \in UpstreamResponses, clientFails \in BOOLEAN : AttemptFails(u, clientFails)
  \/ \E u \in UpstreamResponses : ArtifactArrives(u)
  \/ \E u \in UpstreamResponses : StreamOpens(u)
  \/ \E d \in 1..2 : StreamDelta(d)
  \/ StreamCompletes
  \/ StreamReadFails
  \/ AbortDelivered
  \/ RetryWaitDone
  \/ cancelRequest
  \/ TimeoutFires
  \/ IntervalTick
  \/ \E m \in ChatModes : setActiveMode(m)

\* what ChatWindow renders: the history of the active mode, the one global
\* draft below it, and the global isLoading handed to ChatInput
ChatWindowView ==
  [messages |-> conversations[activeMode], draft |-> streamingMessage, loading |-> isLoading]

Spec == Init /\ [][Next]_vars

\* timers fire, and a fetch or read whose signal was aborted rejects; nothing
\* is assumed of the network
LiveSpec ==
  /\ Init /\ [][Next]_vars
  /\ WF_vars(TimeoutFires)
  /\ WF_vars(AbortDelivered)
  /\ WF_vars(RetryWaitDone)

(***************************************************************************)
(* streamProcessor of /api/stream, one action per run-to-next-await step   *)
(***************************************************************************)
\* an upstream 200 response has arrived and streamProcessor starts
StreamInit ==
  /\ useChatInit
  /\ useChatHookInit
  /\ NoRequest
  /\ NoWelcome
  /\ wholeStream \in UpstreamStreams
  /\ upstream = wholeStream
  /\ buffer = <<>>
  /\ lines = <<>>
  /\ written = <<>>
  /\ proxyPc = "run"
  /\ writerState = "open"
  /\ readFailed = FALSE
  /\ cutInPrefix = FALSE
  /\ cutInJson = FALSE
  /\ clientBytes = <<>>
  /\ clientChunks = <<>>
  /\ clientCommit = NoCommit

\* the bytes reader.read() has delivered so far
Consumed == SubSeq(wholeStream, 1, Len(wholeStream) - Len(upstream))

\* reader.read() delivers the next k bytes as one chunk: the buffer is
\* extended, split, and its last part kept
ReadChunk(k) ==
  /\ proxyPc = "run"
  /\ LoopDone(lines)
  /\ k \in 1..Len(upstream)
  /\ LET parts == Split(buffer \o SubSeq(upstream, 1, k))
     IN  /\ lines' = lines \o CompleteLines(parts)
         /\ buffer' = Remainder(parts)
  /\ upstream' = SubSeq(upstream, k + 1, Len(upstream))
  /\ cutInPrefix' = (cutInPrefix \/ (/\ buffer' # <<>>
                                     /\ Len(buffer') < Len(DataPrefix)
                                     /\ StartsWith(DataPrefix, buffer')))
  /\ cutInJson' = (cutInJson \/ (/\ StartsWith(buffer', DataPrefix)
                                 /\ buffer'[Len(buffer')] \in {"{"} \cup DeltaChars))
  /\ UNCHANGED <<wholeStream, written, proxyPc, writerState, readFailed>>
  /\ UNCHANGED <<clientBytes, clientChunks, clientCommit>>
  /\ UNCHANGED outsideStream

\* one iteration of the for loop, up to and including its awaited write; an
\* exception that leaves the loop body reaches the outer catch
ProcessLine ==
  /\ proxyPc = "run"
  /\ lines # <<>>
  /\ LET o == LineOutcome(Head(lines))
     IN  IF o.kind = "throw"
         THEN /\ lines' = <<>>
              /\ proxyPc' = "closing"
              /\ UNCHANGED written
         ELSE /\ lines' = Tail(lines)
              /\ written' = IF o.kind = "frame" THEN Append(written, ClientFrame(o.text))
                            ELSE written
              /\ UNCHANGED proxyPc
  /\ UNCHANGED <<wholeStream, upstream, buffer, writerState, readFailed, cutInPrefix, cutInJson>>
  /\ UNCHANGED <<clientBytes, clientChunks, clientCommit>>
  /\ UNCHANGED outsideStream

\* reader.read() reports done: break
ReadDone ==
  /\ proxyPc = "run"
  /\ LoopDone(lines)
  /\ upstream = <<>>
  /\ proxyPc' = "closing"
  /\ written' = AtEndOfStream(written, buffer)
  /\ UNCHANGED <<wholeStream, upstream, buffer, lines, writerState, readFailed,
                 cutInPrefix, cutInJson>>
  /\ UNCHANGED <<clientBytes, clientChunks, clientCommit>>
  /\ UNCHANGED outsideStream

\* reader.read() rejects before the provider has delivered everything: the
\* outer catch logs the error
UpstreamReadFails ==
  /\ proxyPc = "run"
  /\ LoopDone(lines)
  /\ upstream # <<>>
  /\ readFailed' = TRUE
  /\ proxyPc' = "closing"
  /\ written' = OnReadFailure(written)
  /\ UNCHANGED <<wholeStream, upstream, buffer, lines, writerState,
                 cutInPrefix, cutInJson>>
  /\ UNCHANGED <<clientBytes, clientChunks, clientCommit>>
  /\ UNCHANGED outsideStream

\* finally: await writer.close()
CloseWriter ==
  /\ proxyPc = "closing"
  /\ writerState' = "closed"
  /\ proxyPc' = "done"
  /\ UNCHANGED <<wholeStream, upstream, buffer, lines, written, readFailed,
                 cutInPrefix, cutInJson>>
  /\ UNCHANGED <<clientBytes, clientChunks, clientCommit>>
  /\ UNCHANGED outsideStream

\* the client: generateTextStream reads the response body to its end and
\* resolves, and performSendWithRetries commits fullResponse.  The body is
\* what the proxy wrote, or the first k bytes of it when the connection ends
\* early.
ClientCompletes(k) ==
  /\ proxyPc = "done"
  /\ k \in 0..Len(EncodeFrames(written))
  /\ clientBytes' = SubSeq(EncodeFrames(written), 1, k)
  /\ clientChunks' = ClientChunksOf(CompleteLines(Split(clientBytes')))
  /\ clientCommit' = FinalAnswerMessage(clientChunks')
  /\ proxyPc' = "settled"
  /\ UNCHANGED <<wholeStream, upstream, buffer, lines, written, writerState, readFailed,
                 cutInPrefix, cutInJson>>
  /\ UNCHANGED outsideStream

StreamNext ==
  \/ \E k \in 1..Len(upstream) : ReadChunk(k)
  \/ ProcessLine
  \/ ReadDone
  \/ UpstreamReadFails
  \/ CloseWriter
  \/ \E k \in 0..Len(EncodeFrames(written)) : ClientCompletes(k)

StreamSpec == StreamInit /\ [][StreamNext]_vars

(***************************************************************************)
(* onRequest of the proxy, one action per run-to-next-await step           *)
(***************************************************************************)
\* the requests the proxy is called with: by the client service functions,
\* or by any other HTTP client (malformed body, missing prompt or image)
RequestInit ==
  /\ useChatInit
  /\ useChatHookInit
  /\ NoStream
  /\ NoWelcome
  /\ route \in Routes
  /\ \/ /\ route = "/api/stream"
        /\ priorTurns \in ClientHistories
        /\ submitted = NewPrompt
        /\ body \in {StreamRequestBody(mode, priorTurns, NewPrompt) : mode \in TextModes}
     \/ /\ route = "/api/stream"
        /\ priorTurns = <<>>
        /\ submitted = 0
        /\ body = MalformedBody
     \/ /\ route = "/api/image"
        /\ priorTurns = <<>>
        /\ submitted \in {0, NewPrompt}
        /\ body \in {ArtifactRequestBody(submitted, FALSE), MalformedBody}
     \/ /\ route = "/api/vision"
        /\ priorTurns = <<>>
        /\ submitted \in {0, NewPrompt}
        /\ body \in {ArtifactRequestBody(submitted, img) : img \in BOOLEAN} \cup {MalformedBody}
     \/ /\ route \in {"/api/wakeup", "/api/status"}
        /\ priorTurns = <<>>
        /\ submitted = 0
        /\ body = NoBody
  /\ handlerPc = "received"
  /\ upstreamCalls = 0
  /\ upstreamMessages = <<>>
  /\ answer = NoAnswer
  /\ lastProbe = "none"
  /\ response = NoResponse
  /\ statuses = [m \in ModelsToCheck |-> "pending"]
  /\ clientThrown = NoThrow

\* request.json() rejects, or /api/vision finds no prompt or no image
RejectedBeforeFetch ==
  /\ route \in BodyRoutes
  /\ \/ ~body.valid
     \/ route = "/api/vision" /\ (body.prompt = 0 \/ ~body.image)

\* the handler answers without calling the provider
RequestRejected ==
  /\ handlerPc = "received"
  /\ RejectedBeforeFetch
  /\ response' = IF ~body.valid THEN ErrorResponse ELSE ValidationResponse
  /\ handlerPc' = "done"
  /\ UNCHANGED <<route, body, priorTurns, submitted, upstreamCalls, upstreamMessages,
                 answer, lastProbe, statuses>>
  /\ UNCHANGED clientThrown
  /\ UNCHANGED outsideRequest

\* the handler calls fetch: once, or once per model for /api/status
FetchIssued ==
  /\ handlerPc = "received"
  /\ ~RejectedBeforeFetch
  /\ upstreamCalls' = upstreamCalls + UpstreamFetches(route)
  /\ upstreamMessages' = IF route = "/api/stream" THEN StreamMessages(body) ELSE <<>>
  /\ handlerPc' = IF route = "/api/status" THEN "probing" ELSE "fetching"
  /\ UNCHANGED <<route, body, priorTurns, submitted, answer, lastProbe, response, statuses>>
  /\ UNCHANGED clientThrown
  /\ UNCHANGED outsideRequest

\* /api/stream, /api/image, /api/vision: the provider answers u
UpstreamResponds(u) ==
  /\ handlerPc = "fetching"
  /\ route \in BodyRoutes
  /\ answer' = u
  /\ response' = ForwardResponse(route, u)
  /\ handlerPc' = "done"
  /\ UNCHANGED <<route, body, priorTurns, submitted, upstreamCalls, upstreamMessages,
                 lastProbe, statuses>>
  /\ UNCHANGED clientThrown
  /\ UNCHANGED outsideRequest

\* /api/wakeup: the provider answers a
WakeupProbeResponds(a) ==
  /\ handlerPc = "fetching"
  /\ route = "/api/wakeup"
  /\ answer' = a
  /\ response' = WakeupResponse(a)
  /\ handlerPc' = "done"
  /\ UNCHANGED <<route, body, priorTurns, submitted, upstreamCalls, upstreamMessages,
                 lastProbe, statuses>>
  /\ UNCHANGED clientThrown
  /\ UNCHANGED outsideRequest

\* /api/status: the provider answers the probe of model m
StatusProbeResponds(m, a) ==
  /\ handlerPc = "probing"
  /\ statuses[m] = "pending"
  /\ statuses' = WithStatus(statuses, m, checkModelStatus(a))
  /\ answer' = a
  /\ lastProbe' = m
  /\ UNCHANGED <<route, body, priorTurns, submitted, handlerPc, upstreamCalls,
                 upstreamMessages, response>>
  /\ UNCHANGED clientThrown
  /\ UNCHANGED outsideRequest

\* /api/status: Promise.all resolves and the statuses are returned
StatusResponds ==
  /\ handlerPc = "probing"
  /\ \A m \in ModelsToCheck : statuses[m] # "pending"
  /\ response' = Resp(200, ModelsToCheck, "none", 0)
  /\ handlerPc' = "done"
  /\ UNCHANGED <<route, body, priorTurns, submitted, upstreamCalls, upstreamMessages,
                 answer, lastProbe, statuses>>
  /\ UNCHANGED clientThrown
  /\ UNCHANGED outsideRequest

\* the platform answers in place of the handler, with an error page
PlatformFails ==
  /\ handlerPc = "received"
  /\ route = "/api/image"
  /\ response' = PlatformErrorResponse
  /\ handlerPc' = "bypassed"
  /\ UNCHANGED <<route, body, priorTurns, submitted, upstreamCalls, upstreamMessages,
                 answer, lastProbe, statuses, clientThrown>>
  /\ UNCHANGED outsideRequest

\* the client's generateImage receives the response and returns or throws
ClientSettles ==
  /\ handlerPc \in {"done", "bypassed"}
  /\ route = "/api/image"
  /\ clientThrown' = generateImage(response)
  /\ handlerPc' = "settled"
  /\ UNCHANGED <<route, body, priorTurns, submitted, upstreamCalls, upstreamMessages,
                 answer, lastProbe, response, statuses>>
  /\ UNCHANGED outsideRequest

RequestNext ==
  \/ RequestRejected
  \/ FetchIssued
  \/ \E u \in UpstreamResponses : UpstreamResponds(u)
  \/ \E a \in ProbeAnswers : WakeupProbeResponds(a)
  \/ \E m \in ModelsToCheck, a \in ProbeAnswers : StatusProbeResponds(m, a)
  \/ StatusResponds
  \/ PlatformFails
  \/ ClientSettles

RequestSpec == RequestInit /\ [][RequestNext]_vars

(***************************************************************************)
(* WelcomeScreen: the wake-up process started on mount and by "Coba Lagi". *)
(* isPolling and estimatedTime are the locals of the current process; a    *)
(* process can only be started when the previous one has failed, so at     *)
(* most one is alive.                                                      *)
(***************************************************************************)
\* startWakeUpProcess up to the first await of poll
ProcessStarted ==
  /\ welcomeLoading' = TRUE
  /\ isReady' = FALSE
  /\ wakeError' = FALSE
  /\ estimatedTime' = DefaultEstimate
  /\ isPolling' = TRUE
  /\ progressIntervalRef' = "armed"
  /\ welcomePc' = "calling"
  /\ polls' = 0
  /\ readyReceived' = FALSE
  /\ wakeAnswer' = NoAnswer
  /\ wakeResponse' = NoResponse

\* the component has mounted and its effect has run
WelcomeInit ==
  /\ useChatInit /\ NoStream /\ NoRequest /\ useChatHookInit
  /\ welcomeLoading = TRUE
  /\ isReady = FALSE
  /\ wakeError = FALSE
  /\ estimatedTime = DefaultEstimate
  /\ isPolling = TRUE
  /\ progressIntervalRef = "armed"
  /\ welcomePc = "calling"
  /\ polls = 0
  /\ restarts = 0
  /\ readyReceived = FALSE
  /\ showWelcome = TRUE
  /\ wakeAnswer = NoAnswer
  /\ wakeResponse = NoResponse

\* poll from the return of wakeUpModel to its end
PollContinues(r) ==
  /\ wakeResponse' = r
  /\ readyReceived' = (r.statusField = "ready")
  /\ IF ~isPolling
     THEN /\ welcomePc' = "stopped"
          /\ UNCHANGED <<welcomeLoading, isReady, wakeError, isPolling, estimatedTime,
                         progressIntervalRef, polls>>
     ELSE IF PollOutcome(r) = "loading"
     THEN /\ polls < MaxPolls
          /\ estimatedTime' = NextEstimate(r, estimatedTime)
          /\ welcomePc' = "pollWait"
          /\ polls' = polls + 1
          /\ UNCHANGED <<welcomeLoading, isReady, wakeError, isPolling, progressIntervalRef>>
     ELSE IF PollOutcome(r) = "ready"
     THEN /\ isPolling' = FALSE
          /\ welcomePc' = "readyWait"
          /\ UNCHANGED <<welcomeLoading, isReady, wakeError, estimatedTime,
                         progressIntervalRef, polls>>
     ELSE /\ isPolling' = FALSE
          /\ progressIntervalRef' = "null"
          /\ wakeError' = TRUE
          /\ welcomeLoading' = FALSE
          /\ welcomePc' = "failed"
          /\ UNCHANGED <<isReady, estimatedTime, polls>>
  /\ UNCHANGED <<restarts, showWelcome>>

\* /api/wakeup answers the call of wakeUpModel
WakeupAnswers(a) ==
  /\ welcomePc = "calling"
  /\ wakeAnswer' = a
  /\ PollContinues(WakeupResponse(a))
  /\ UNCHANGED outsideWelcome

\* the call of wakeUpModel does not reach the proxy
WakeupCallRejected ==
  /\ welcomePc = "calling"
  /\ wakeAnswer' = NoAnswer
  /\ PollContinues(FetchRejected)
  /\ UNCHANGED outsideWelcome

\* setTimeout(poll, 7000) fires
PollTimerFires ==
  /\ welcomePc = "pollWait"
  /\ welcomePc' = "calling"
  /\ UNCHANGED <<welcomeLoading, isReady, wakeError, isPolling, estimatedTime,
                 progressIntervalRef, polls, restarts, readyReceived, showWelcome,
                 wakeAnswer, wakeResponse>>
  /\ UNCHANGED outsideWelcome

\* the timeout armed on the ready answer fires
ReadyTimerFires ==
  /\ welcomePc = "readyWait"
  /\ welcomeLoading' = FALSE
  /\ isReady' = TRUE
  /\ welcomePc' = "ready"
  /\ UNCHANGED <<wakeError, isPolling, estimatedTime, progressIntervalRef, polls,
                 restarts, readyReceived, showWelcome, wakeAnswer, wakeResponse>>
  /\ UNCHANGED outsideWelcome

\* renderContent: which button is on screen
RetryButtonShown == showWelcome /\ ~welcomeLoading /\ wakeError
StartButtonShown == showWelcome /\ ~welcomeLoading /\ ~wakeError

\* "Coba Lagi"
RestartClicked ==
  /\ RetryButtonShown
  /\ restarts < MaxRestarts
  /\ restarts' = restarts + 1
  /\ ProcessStarted
  /\ UNCHANGED showWelcome
  /\ UNCHANGED outsideWelcome

\* "Mulai Chatting": onStart unmounts the screen, the effect's cleanup runs
StartClicked ==
  /\ StartButtonShown
  /\ showWelcome' = FALSE
  /\ progressIntervalRef' = "null"
  /\ welcomePc' = "none"
  /\ UNCHANGED <<welcomeLoading, isReady, wakeError, isPolling, estimatedTime, polls,
                 restarts, readyReceived, wakeAnswer, wakeResponse>>
  /\ UNCHANGED outsideWelcome

WelcomeNext ==
  \/ \E a \in ProbeAnswers : WakeupAnswers(a)
  \/ WakeupCallRejected
  \/ PollTimerFires
  \/ ReadyTimerFires
  \/ RestartClicked
  \/ StartClicked

WelcomeSpec == WelcomeInit /\ [][WelcomeNext]_vars

(***************************************************************************)
(* src/hooks/useChat.ts, one action per handler or continuation.  mode is  *)
(* the active mode of the render a function was created in: hMode for a    *)
(* call made now, hReqMode for the sendMessage call in flight.             *)
(***************************************************************************)
\* the finally block of sendMessage
HookFinally ==
  /\ hIntervalPending' = 0
  /\ hIsLoading' = FALSE
  /\ hAbortControllerRef' = "null"
  /\ hPc' = "idle"

\* sendMessage up to its first await; MaxHookSends bounds the submissions
hookSendMessage ==
  /\ ~hIsLoading
  /\ hPc = "idle"
  /\ hSends < MaxHookSends
  /\ hSends' = hSends + 1
  /\ hAbortControllerRef' = "live"
  /\ hIsLoading' = TRUE
  /\ hReqMode' = hMode
  /\ newMessages' = Append(hConversations[hMode], HookUserMessage)
  /\ hFullResponse' = <<>>
  /\ hasStartedStreaming' = FALSE
  /\ hPlaceholderIndex' = 0
  /\ hPc' = "fetch"
  /\ IF hMode = "Media"
     THEN /\ hConversations' = [hConversations EXCEPT
                ![hMode] = Append(newMessages', HookPlaceholder(0, hSends'))]
          /\ hIntervalPending' = 1
     ELSE /\ hConversations' = [hConversations EXCEPT
                ![hMode] = Append(newMessages', ProvisionalMessage(isFirstRequestRef[hMode]))]
          /\ UNCHANGED hIntervalPending
  /\ UNCHANGED <<hMode, isFirstRequestRef>>
  /\ UNCHANGED outsideHook

\* the placeholder rotation ticks
hookIntervalTick ==
  /\ hIntervalPending > 0
  /\ hPlaceholderIndex' = (hPlaceholderIndex + 1) % NumPlaceholders
  /\ hConversations' = [hConversations EXCEPT ![hReqMode] =
        ReplacePlaceholder(@, hSends, HookPlaceholder(hPlaceholderIndex', hSends))]
  /\ UNCHANGED <<hMode, hIsLoading, hAbortControllerRef, hIntervalPending, isFirstRequestRef,
                 hPc, hReqMode, newMessages, hFullResponse, hasStartedStreaming, hSends>>
  /\ UNCHANGED outsideHook

\* generateImage resolves: the image message replaces the placeholder
hookImageArrives ==
  /\ hPc = "fetch"
  /\ hReqMode = "Media"
  /\ isFirstRequestRef' = [isFirstRequestRef EXCEPT ![hReqMode] = FALSE]
  /\ hConversations' = [hConversations EXCEPT ![hReqMode] =
        ReplacePlaceholder(@, hSends, HookImageMessage)]
  /\ HookFinally
  /\ UNCHANGED <<hMode, hReqMode, newMessages, hFullResponse, hasStartedStreaming,
                 hPlaceholderIndex, hSends>>
  /\ UNCHANGED outsideHook

\* generateImage rejects, or generateTextStream calls onError: an error
\* message follows the user message
hookRequestFails ==
  /\ hPc \in {"fetch", "stream"}
  /\ hReqMode = "Media" => hPc = "fetch"
  /\ hConversations' = [hConversations EXCEPT
        ![hReqMode] = Append(newMessages, HookErrorMessage)]
  /\ HookFinally
  /\ UNCHANGED <<hMode, isFirstRequestRef, hReqMode, newMessages, hFullResponse,
                 hasStartedStreaming, hPlaceholderIndex, hSends>>
  /\ UNCHANGED outsideHook

\* /api/stream answers 200: generateTextStream starts reading
hookStreamOpens ==
  /\ hPc = "fetch"
  /\ hReqMode # "Media"
  /\ hPc' = "stream"
  /\ UNCHANGED <<hMode, hConversations, hIsLoading, hAbortControllerRef, hIntervalPending,
                 isFirstRequestRef, hReqMode, newMessages, hFullResponse,
                 hasStartedStreaming, hPlaceholderIndex, hSends>>
  /\ UNCHANGED outsideHook

\* onChunk
hookStreamDelta(d) ==
  /\ hPc = "stream"
  /\ Len(hFullResponse) < MaxDeltas
  /\ LET clears == isFirstRequestRef[hReqMode] /\ ~hasStartedStreaming
     IN  /\ hFullResponse' = Append(IF clears THEN <<>> ELSE hFullResponse, d)
         /\ hasStartedStreaming' = (hasStartedStreaming \/ clears)
         /\ isFirstRequestRef' = IF clears THEN [isFirstRequestRef EXCEPT ![hReqMode] = FALSE]
                                 ELSE isFirstRequestRef
  /\ hConversations' = [hConversations EXCEPT
        ![hReqMode] = Append(newMessages, HookAnswer(hFullResponse'))]
  /\ UNCHANGED <<hMode, hIsLoading, hAbortControllerRef, hIntervalPending, hPc, hReqMode,
                 newMessages, hPlaceholderIndex, hSends>>
  /\ UNCHANGED outsideHook

\* reader.read() reports done: generateTextStream resolves
hookStreamCompletes ==
  /\ hPc = "stream"
  /\ HookFinally
  /\ UNCHANGED <<hMode, hConversations, isFirstRequestRef, hReqMode, newMessages,
                 hFullResponse, hasStartedStreaming, hPlaceholderIndex, hSends>>
  /\ UNCHANGED outsideHook

\* cancelRequest of the current render.  abort() rejects the pending fetch
\* or read with AbortError, which generateTextStream swallows and the catch
\* block of sendMessage returns on, so the finally block follows at once.
hookCancelRequest ==
  /\ hIsLoading' = FALSE
  /\ hAbortControllerRef' = "null"
  /\ hIntervalPending' = 0
  /\ hConversations' = [hConversations EXCEPT ![hMode] = WithoutTemporary(@)]
  /\ hPc' = "idle"
  /\ UNCHANGED <<hMode, isFirstRequestRef, hReqMode, newMessages, hFullResponse,
                 hasStartedStreaming, hPlaceholderIndex, hSends>>
  /\ UNCHANGED outsideHook

\* a sidebar button
hookSetActiveMode(m) ==
  /\ m # hMode
  /\ hMode' = m
  /\ UNCHANGED <<hConversations, hIsLoading, hAbortControllerRef, hIntervalPending,
                 isFirstRequestRef, hPc, hReqMode, newMessages, hFullResponse,
                 hasStartedStreaming, hPlaceholderIndex, hSends>>
  /\ UNCHANGED outsideHook

HookNext ==
  \/ hookSendMessage
  \/ hookIntervalTick
  \/ hookImageArrives
  \/ hookRequestFails
  \/ hookStreamOpens
  \/ \E d \in 1..2 : hookStreamDelta(d)
  \/ hookStreamCompletes
  \/ hookCancelRequest
  \/ \E m \in HookModes : hookSetActiveMode(m)

HookSpec == Init /\ [][HookNext]_vars

(***************************************************************************)
(* Properties                                                              *)
(***************************************************************************)
SessionEnded == pc = "idle" /\ sends > 0

History == conversations[sessMode]

LastResult == results[Len(results)]

TerminalSuccessKinds == {"answer", "image"}
TerminalErrorKinds == {"apology", "loadfail", "generic"}

AllLoading(n) == \A i \in 1..n : results[i] = "loading"

UserCancelled == abortCause = "user" \/ cancelledInWait

\* C1: every accepted sendMessage ends with exactly one terminal outcome: the
\* history of its mode is the snapshot taken at submission followed by exactly
\* one success message or exactly one error message, or it is the snapshot
\* alone after a cancellation; never something else, never two messages.
C1_ExactlyOneOutcome ==
  SessionEnded =>
    \/ /\ Len(History) = Len(currentConversation) + 1
       /\ SubSeq(History, 1, Len(currentConversation)) = currentConversation
       /\ History[Len(History)].kind \in TerminalSuccessKinds \cup TerminalErrorKinds
       /\ ~History[Len(History)].isLoading
    \/ /\ History = currentConversation
       /\ UserCancelled

C1_Witness ==
  /\ SessionEnded
  /\ sessMode = "Media"
  /\ results = <<"ok">>
  /\ History = Append(currentConversation, FinalImageMessage)

\* C2: a user cancel() issued while a network attempt is outstanding never
\* adds an error or apology message: once the session is back in Idle the
\* history of its mode does not end with an error message.
C2_CancelAddsNoError ==
  (SessionEnded /\ abortCause = "user" /\ LastResult = "abort") =>
    History[Len(History)].kind \notin TerminalErrorKinds

\* C3: in a text mode, cancel() after at least one delta and before the end of
\* the stream leaves the history equal to the pre-submission history plus the
\* user message, and the draft null.
C3_CancelMidStreamKeepsSnapshot ==
  (/\ SessionEnded
   /\ sessMode \in TextModes
   /\ abortCause = "user"
   /\ LastResult = "abort"
   /\ Len(fullResponse) >= 1) =>
    /\ History = currentConversation
    /\ Len(History) = Len(preHistory) + 1
    /\ ~streamingMessage.present

\* C4: once cancel() has been called during the wait between two attempts, the
\* session issues no further network attempt and does not change the history.
C4_CancelAbortsWait ==
  [][(cancelledInWait /\ isLoading) =>
       (attempts' = attempts /\ conversations' = conversations)]_vars

\* C5: cancel() called while isLoading is true and no network attempt is in
\* flight returns the orchestrator to Idle as its direct effect.
C5_CancelForcesIdle ==
  [][(cancelRequest /\ isLoading /\ ~InFlight) =>
       (~isLoading' /\ ~streamingMessage'.present)]_vars

\* C6: an upstream non-2xx response whose JSON body has error and
\* estimated_time reaches the orchestrator as a loading error and a retry is
\* scheduled; every other non-2xx response ends the session as a hard failure.
C6_SameClassification ==
  [][(pc = "fetch" /\ pc' # "fetch" /\ retryCount < MAX_RETRIES) =>
       \A u \in UpstreamHttpErrors :
         AttemptFails(u, FALSE) =>
           IF IsLoadingShaped(u) THEN pc' = "wait" /\ LastResult' = "loading"
           ELSE pc' = "idle" /\ LastResult' = "hard"]_vars

\* C7: if the first k attempts of a submission fail with a loading-classified
\* error and attempt k+1 succeeds, then k <= MAX_RETRIES, exactly k retries
\* were made, and the final history is the pre-submission history followed by
\* exactly one user message and exactly one model message.
C7_RetriesThenSuccess ==
  (/\ SessionEnded
   /\ Len(results) >= 1
   /\ LastResult = "ok"
   /\ AllLoading(Len(results) - 1)) =>
    /\ Len(results) - 1 <= MAX_RETRIES
    /\ retryCount = Len(results) - 1
    /\ attempts = Len(results)
    /\ Len(History) = Len(preHistory) + 2
    /\ SubSeq(History, 1, Len(preHistory)) = preHistory
    /\ History[Len(preHistory) + 1] = UserMessage(prompt, imageBase64)
    /\ History[Len(History)].role = "model"
    /\ History[Len(History)].kind \in TerminalSuccessKinds

C7_Witness ==
  /\ SessionEnded
  /\ results = <<"loading", "loading", "ok">>
  /\ attempts = 3
  /\ History[Len(History)].kind = "answer"
  /\ Len(History[Len(History)].content) = 2

C10_OnlyLoadingIsRetried ==
  /\ [][(Len(results') > Len(results) /\ LastResult' # "loading") =>
          (pc' = "idle" /\ ~isLoading' /\ attempts' = attempts)]_vars
  /\ [][(isLoading /\ attempts' # attempts) =>
          (/\ attempts' = attempts + 1
           /\ Len(results) = attempts
           /\ LastResult = "loading")]_vars

C10_Witness ==
  /\ SessionEnded
  /\ results = <<"loading", "hard">>
  /\ attempts = 2
  /\ History[Len(History)].kind = "generic"

\* C11: when the deadline timer fires while an attempt is outstanding, in
\* every mode the session ends with exactly one apology message appended after
\* the user message, and no retry is issued.
C11_DeadlineEndsInApology ==
  (SessionEnded /\ abortCause = "deadline" /\ LastResult = "abort") =>
    /\ History = Append(currentConversation, FinalErrorMessage("apology"))
    /\ attempts = Len(results)

C15_ModesIndependent ==
  (InFlight /\ activeMode # sessMode) =>
    /\ \E userInput \in UserInputs, img \in BOOLEAN :
         ~SendRejected(isLoading, activeMode, userInput, img)
    /\ ~ChatWindowView.draft.present
    /\ ~ChatWindowView.loading

\* the text of a line that is 'data:', optional blanks, and a JSON chunk with
\* delta content; such lines are the valid lines of a stream
ValidDeltaLines ==
  {DataPrefix \o blanks \o JsonWithDelta(x) : blanks \in {<<>>, <<SP>>}, x \in DeltaChars}

RECURSIVE ExpectedFrames(_)
ExpectedFrames(ls) ==
  IF ls = <<>> THEN <<>>
  ELSE IF Head(ls) \in ValidDeltaLines
       THEN <<ClientFrame(Head(ls)[Len(Head(ls)) - 1])>> \o ExpectedFrames(Tail(ls))
       ELSE ExpectedFrames(Tail(ls))

IsPrefix(s, t) == Len(s) <= Len(t) /\ SubSeq(t, 1, Len(s)) = s

\* C18: the stream translator is independent of transport chunking: however
\* the delivered bytes were split into chunks, also inside a JSON object or
\* inside the data: prefix, the frames written to the client are those
\* written when the same bytes arrive as one chunk.
C18_ChunkingIndependent ==
  proxyPc = "done" => written = OneChunk(Consumed)

C18_Witness ==
  /\ proxyPc = "done"
  /\ ~readFailed
  /\ cutInPrefix
  /\ cutInJson
  /\ Len(written) >= 2

\* C19: a data: line that is the [DONE] sentinel, is not valid JSON or has no
\* delta content yields no frame and no error: the client stream stays open
\* while the translator runs, only {text} frames are written, and at the end
\* the frames are exactly those of the valid lines, in order.
C19_BadLinesAreSkipped ==
  /\ proxyPc = "run" => writerState = "open"
  /\ \A i \in 1..Len(written) : written[i].text \in DeltaChars
  /\ (proxyPc = "done" /\ ~readFailed) =>
       written = ExpectedFrames(CompleteLines(Split(wholeStream)))

C19_Witness ==
  /\ proxyPc = "done"
  /\ ~readFailed
  /\ wholeStream = (DataPrefix \o <<SP>> \o DoneToken \o <<NL>>)
                     \o (DataPrefix \o <<"{", "a", NL>>)
                     \o (DataPrefix \o JsonWithDelta("b") \o <<NL>>)
  /\ written = <<ClientFrame("b")>>

\* C20: the proxy relays frames as they arrive: when it reads the next
\* upstream chunk every frame of the chunks read before has been written, and
\* the frames written are always a prefix of the stream's frames in upstream
\* order.
C20_FramesBeforeNextRead ==
  /\ [][upstream' # upstream => (lines = <<>> /\ written = OneChunk(Consumed))]_vars
  /\ [](IsPrefix(written, OneChunk(wholeStream)))

C20_Witness ==
  /\ proxyPc = "run"
  /\ lines = <<>>
  /\ buffer # <<>>
  /\ upstream # <<>>
  /\ Len(written) >= 2

\* C21: the proxy never retries: one invocation of /api/stream, /api/image,
\* /api/vision or /api/wakeup issues at most one upstream request, and exactly
\* one whenever the provider has answered, whatever the answer.
C21_ProxyNeverRetries ==
  route \in SingleFetchRoutes =>
    /\ upstreamCalls <= 1
    /\ answer # NoAnswer => upstreamCalls = 1

C21_Witness ==
  /\ route = "/api/stream"
  /\ handlerPc = "done"
  /\ IsLoadingShaped(answer)
  /\ upstreamCalls = 1
  /\ response = ErrorResponse

\* the turns of a history with role model renamed to assistant
RenamedTurns(turns) ==
  [i \in 1..Len(turns) |->
     Msg(IF turns[i].role = "model" THEN "assistant" ELSE turns[i].role, turns[i].content)]

WithoutGreeting(turns) ==
  IF Len(turns) > 0 /\ turns[1] = Msg("model", GreetingContent) THEN Tail(turns) ELSE turns

\* C22: for a text submission the message list sent upstream is one system
\* message chosen by mode, the prior turns in order with model renamed to
\* assistant, then the new user turn; the submitted prompt is in the list
\* exactly once, as the last message.
C22_PromptSentOnce ==
  (route = "/api/stream" /\ upstreamCalls = 1) =>
    /\ upstreamMessages = <<Msg("system", SystemPrompt(body.mode))>>
                            \o RenamedTurns(WithoutGreeting(priorTurns))
                            \o <<Msg("user", submitted)>>
    /\ Cardinality({i \in 1..Len(upstreamMessages) :
                      upstreamMessages[i].content = submitted}) = 1
    /\ upstreamMessages[Len(upstreamMessages)] = Msg("user", submitted)

\* C23: checkModelStatus classifies a probe as online when the response is
\* 2xx or 422, as loading when it is another non-2xx response whose JSON body
\* has error and estimated_time, and as offline in every other case.
C23_StatusClassification ==
  (route = "/api/status" /\ lastProbe # "none") =>
    statuses[lastProbe] =
      IF answer.kind = "response" /\ (IsOkStatus(answer.status) \/ answer.status = 422)
      THEN "online"
      ELSE IF answer.kind = "response" /\ answer.json /\ answer.hasError /\ answer.est # 0
      THEN "loading"
      ELSE "offline"

C23_Witness ==
  /\ route = "/api/status"
  /\ lastProbe = "vilt"
  /\ answer.status = 422
  /\ answer.json /\ answer.hasError /\ answer.est # 0
  /\ statuses["vilt"] = "online"
  /\ statuses["llama3"] = "loading"
  /\ statuses["sdxl"] = "offline"

\* C24: /api/wakeup answers 200 {status: ready} exactly when the probe is
\* 2xx, 202 {status: loading, estimated_time} exactly when the probe is
\* non-2xx with a JSON body carrying error and estimated_time, and a 500 error
\* response in every other case.
C24_WakeupAnswers ==
  (route = "/api/wakeup" /\ handlerPc = "done") =>
    LET probeOk == answer.kind = "response" /\ IsOkStatus(answer.status)
        probeLoading == /\ answer.kind = "response"
                        /\ ~IsOkStatus(answer.status)
                        /\ answer.json /\ answer.hasError /\ answer.est # 0
    IN  /\ (response.status = 200 /\ response.statusField = "ready") <=> probeOk
        /\ (/\ response.status = 202
            /\ response.statusField = "loading"
            /\ "estimated_time" \in response.fields
            /\ response.estimated_time = answer.est) <=> probeLoading
        /\ (~probeOk /\ ~probeLoading) =>
             (/\ response.status = 500
              /\ response.statusField = "none"
              /\ response.fields = {"error", "detail"})

C24_Witness ==
  /\ route = "/api/wakeup"
  /\ handlerPc = "done"
  /\ answer.kind = "response"
  /\ answer.status = 422
  /\ answer.json /\ answer.hasError /\ answer.est = 0
  /\ response.status = 500

\* C25: every response of /api/image and /api/vision is the success body
\* ({imageUrl} or {answer}) or an error body that has both an error field and
\* a detail field.
C25_ErrorBodyHasDetail ==
  (route \in {"/api/image", "/api/vision"} /\ handlerPc = "done") =>
    \/ response.fields \in {{"imageUrl"}, {"answer"}}
    \/ {"error", "detail"} \subseteq response.fields

\* C28: the welcome screen becomes ready, and shows the start button, only
\* after a wake-up answer with status ready; while the answers are 202 loading
\* it stays not ready and polls again; after a failed wake-up it does not poll
\* and stays not ready until "Coba Lagi" starts the process again.
C28_ReadyOnlyAfterReadyAnswer ==
  /\ [](showWelcome /\ (isReady \/ StartButtonShown) =>
          readyReceived /\ wakeResponse.statusField = "ready" /\ IsOkStatus(wakeAnswer.status))
  /\ [][(welcomePc = "calling" /\ wakeResponse'.status = 202 /\ wakeResponse' # wakeResponse)
          => welcomePc' = "pollWait" /\ isPolling' /\ ~isReady' /\ welcomeLoading']_vars
  /\ [](welcomePc = "pollWait" => isPolling /\ ~isReady /\ ENABLED PollTimerFires)
  /\ [][(welcomePc = "calling" /\ welcomePc' # "calling"
           /\ wakeResponse'.status \notin {200, 202})
          => welcomePc' = "failed" /\ wakeError']_vars
  /\ [](welcomePc = "failed" => ~isPolling /\ ~isReady /\ ~ENABLED PollTimerFires)
  /\ [][welcomePc = "failed" /\ welcomePc' # "failed" => restarts' = restarts + 1]_vars

C28_Witness ==
  /\ isReady /\ welcomePc = "ready" /\ restarts = 1 /\ polls = MaxPolls
  /\ estimatedTime = 30

BlankInputs == {0, 1}

PreconditionsFail(userInput, img) ==
  \/ isLoading
  \/ activeMode # "Vision" /\ userInput \in BlankInputs
  \/ activeMode = "Vision" /\ ~img

\* C29: a call of sendMessage while isLoading is true, or with an empty or
\* whitespace-only prompt in a non-Vision mode, or in Vision mode without an
\* image, leaves every mode's history, isLoading, the draft and all timers
\* unchanged and issues no network request.
C29_RejectedSendIsNoOp ==
  [][\A userInput \in UserInputs, img \in BOOLEAN :
       (PreconditionsFail(userInput, img) /\ sendMessage(userInput, img)) =>
         UNCHANGED <<conversations, isLoading, streamingMessage, refVars, pendingIntervals,
                     pendingTimeouts, outstanding, attempts, sends>>]_vars

C29_Witness ==
  /\ isLoading /\ pc = "stream" /\ Len(delivered) = 1 /\ pendingTimeouts = 1
  /\ outstanding = 1
  /\ \A userInput \in UserInputs, img \in BOOLEAN :
       PreconditionsFail(userInput, img) /\ ENABLED sendMessage(userInput, img)

\* C30: while a text attempt is in flight the history of every mode is the
\* one left by the append of the user message, and a delta changes nothing
\* but the draft (and the accumulated text behind it).
C30_DeltasOnlyChangeDraft ==
  /\ []((InFlight /\ sessMode \in TextModes) =>
          History = Append(preHistory, UserMessage(prompt, imageBase64)))
  /\ [][(InFlight /\ sessMode \in TextModes /\ InFlight') =>
          conversations' = conversations]_vars
  /\ [][(pc = "stream" /\ delivered' # delivered) =>
          UNCHANGED <<activeMode, conversations, isLoading, refVars, hostVars, pc,
                      currentConversation, retryCount>>]_vars

C30_Witness ==
  /\ pc = "stream" /\ attempts = 2 /\ Len(delivered) = MaxDeltas
  /\ History = Append(preHistory, UserMessage(prompt, imageBase64))
  /\ streamingMessage = Draft(delivered)

\* C27: every accepted submission eventually returns the orchestrator to
\* Idle with isLoading false, provided timers fire; the network need not
\* answer any attempt.
C27_SessionTerminates == isLoading ~> (pc = "idle" /\ ~isLoading)

C27_Witness ==
  /\ SessionEnded /\ ~isLoading
  /\ attempts = MAX_RETRIES + 1
  /\ LastResult = "abort" /\ abortCause = "deadline"
  /\ pendingTimeouts = 0

\* C31: the attempt counter of a session stays within 0..MAX_RETRIES and a
\* submission causes at most MAX_RETRIES + 1 network attempts, whatever the
\* upstream answers.
C31_AttemptsBounded ==
  /\ retryCount \in 0..MAX_RETRIES
  /\ attempts <= MAX_RETRIES + 1
  /\ Len(results) <= MAX_RETRIES + 1
  /\ isLoading => attempts = retryCount + 1

C31_Witness ==
  /\ pc = "fetch" /\ retryCount = MAX_RETRIES /\ attempts = MAX_RETRIES + 1
  /\ results = <<"loading", "loading">>

C33_ImageErrorIsBodyError ==
  (route = "/api/image" /\ handlerPc = "settled" /\ ~IsOkStatus(response.status)) =>
    /\ {"error", "detail"} \subseteq response.fields => clientThrown = Thrown("Error", "error")
    /\ response.fields = {} => clientThrown = Thrown("Error", "fallback")
    /\ clientThrown.from = "fallback" => response.fields = {}

HookHistory == hConversations[hReqMode]

\* C34: in the src/hooks/useChat.ts variant, cancelRequest during a text
\* request before the first delta has arrived removes the provisional model
\* message, for the first request of a mode as for later ones: afterwards the
\* history ends with the user message.
C34_CancelRemovesProvisional ==
  [][(/\ hookCancelRequest
      /\ hPc \in {"fetch", "stream"} /\ hReqMode \in TextModes /\ hMode = hReqMode
      /\ hFullResponse = <<>>)
       => HookHistory' = newMessages]_vars

\* C35: in the src/hooks/useChat.ts variant, cancelRequest removes only a
\* rotation placeholder or an empty text draft: a committed answer or
\* generated-image message is never removed from the history.
C35_CancelKeepsCommitted ==
  [][hookCancelRequest =>
       \A m \in HookModes :
         LET h == hConversations[m]
         IN  (h # <<>> /\ h[Len(h)].kind \in {"answer", "image"}) => hConversations'[m] = h]_vars

\* the texts of a sequence of frames
RECURSIVE TextsOf(_)
TextsOf(fs) == IF fs = <<>> THEN <<>> ELSE <<Head(fs).text>> \o TextsOf(Tail(fs))

\* the parts of a byte stream before its last line feed
TerminatedLines(s) == SubSeq(Split(s), 1, Len(Split(s)) - 1)

\* C36: when the upstream stream ends, a final data: line without a line feed
\* is discarded by the proxy: the frames written are those of the lines that
\* ended in a line feed; the client's parser likewise delivers the deltas of
\* the terminated lines of the bytes it received and drops the rest.
C36_TrailingBufferDiscarded ==
  /\ (proxyPc \in {"closing", "done", "settled"} /\ ~readFailed) =>
       written = ExpectedFrames(TerminatedLines(wholeStream))
  /\ proxyPc = "settled" =>
       clientChunks = TextsOf(ExpectedFrames(TerminatedLines(clientBytes)))

C36_Witness ==
  /\ proxyPc = "settled" /\ ~readFailed
  /\ buffer = DataPrefix \o JsonWithDelta("a")
  /\ written = <<ClientFrame("b")>>
  /\ clientBytes = DataPrefix \o <<SP>> \o JsonWithDelta("b")
  /\ clientChunks = <<>>

\* C37: the proxy closes the client stream exactly once on every path; when
\* reading the upstream fails in mid-stream nothing but the frames of the
\* bytes read is written, the client stream ends normally, and the
\* orchestrator commits the text received as an answer.
C37_ClosedOnceNoErrorFrame ==
  /\ [][writerState' # writerState =>
          (writerState = "open" /\ writerState' = "closed" /\ proxyPc = "closing")]_vars
  /\ [](proxyPc \in {"done", "settled"} <=> writerState = "closed")
  /\ []((readFailed /\ proxyPc \in {"closing", "done", "settled"}) =>
          /\ written = ExpectedFrames(TerminatedLines(Consumed))
          /\ \A i \in 1..Len(written) : written[i].text \in DeltaChars)
  /\ []((readFailed /\ proxyPc = "settled" /\ clientBytes = EncodeFrames(written)) =>
          clientCommit = FinalAnswerMessage(TextsOf(written)))

C37_Witness ==
  /\ readFailed /\ proxyPc = "settled" /\ writerState = "closed"
  /\ upstream # <<>>
  /\ Len(written) = 2
  /\ clientBytes = EncodeFrames(written)
  /\ clientCommit = FinalAnswerMessage(<<"a", "b">>)

\* C38: /api/status always answers 200 with exactly the four configured model
\* ids, each mapped to online, loading or offline; a probe that fails (no
\* answer, a body that is not JSON) makes its own model offline and leaves
\* the classification of every other model as it is.
C38_StatusIsPerModel ==
  /\ []((route = "/api/status" /\ handlerPc = "done") =>
          /\ response.status = 200
          /\ response.fields = {"llama3", "codellama", "vilt", "sdxl"}
          /\ DOMAIN statuses = response.fields
          /\ \A m \in DOMAIN statuses : statuses[m] \in {"online", "loading", "offline"})
  /\ [][(route = "/api/status" /\ lastProbe' # lastProbe) =>
          /\ \A m \in ModelsToCheck \ {lastProbe'} : statuses'[m] = statuses[m]
          /\ (answer'.kind = "network_error" \/ (~IsOkStatus(answer'.status)
                 /\ answer'.status # 422 /\ ~answer'.json))
               => statuses'[lastProbe'] = "offline"]_vars
  /\ [](route = "/api/status" => handlerPc \in {"received", "probing", "done"})

C38_Witness ==
  /\ route = "/api/status" /\ handlerPc = "done" /\ response.status = 200
  /\ statuses["llama3"] = "offline" /\ statuses["codellama"] = "online"
  /\ statuses["vilt"] = "loading" /\ statuses["sdxl"] = "offline"
  /\ lastProbe = "llama3" /\ answer.kind = "network_error"

====
